---- MODULE Spec2Model ----
(***************************************************************************)
(* Model of the personal expense tracker (src/expense_tracker.py): the     *)
(* in-memory list `expenses`, the snapshot file expenses.json, and the     *)
(* interactive handlers add / delete / update / monthly summary.           *)
(*                                                                         *)
(* Text typed by the user is a sequence of one-character strings, so that  *)
(* strip(), isdigit(), int(), float(), strptime() and startswith() are     *)
(* computed character by character as Python computes them.                *)
(* Amounts are Python floats: a finite value (modelled exactly, as an      *)
(* integer; rounding is not modelled), NaN, +Infinity or -Infinity.        *)
(***************************************************************************)
EXTENDS Integers, Sequences, FiniteSets, TLC

VARIABLES expenses, file, pc, locals, out, opSaves, lastSave, ioFailures

vars == <<expenses, file, pc, locals, out, opSaves, lastSave, ioFailures>>

(* ------------------------------ bounds --------------------------------- *)
\* largest number of records the model lets add_expense build up
MaxExpenses == 2
\* largest number of failing snapshot writes in one run
MaxIOFailures == 1

(* --------------------------- text helpers ------------------------------ *)
DigitChars == <<"0", "1", "2", "3", "4", "5", "6", "7", "8", "9">>

IsDecimalChar(c) == \E i \in 1..10 : DigitChars[i] = c

DigitVal(c) == (CHOOSE i \in 1..10 : DigitChars[i] = c) - 1

\* str.isdigit() of one character: the decimal digits and the digit-like
\* characters that int() does not accept (superscript two stands for them)
IsDigitChar(c) == IsDecimalChar(c) \/ c = "^2"

IsSpaceChar(c) == c = " "

RECURSIVE LStrip(_)
LStrip(s) == IF s # <<>> /\ IsSpaceChar(Head(s)) THEN LStrip(Tail(s)) ELSE s

RECURSIVE RStrip(_)
RStrip(s) ==
    IF s # <<>> /\ IsSpaceChar(s[Len(s)]) THEN RStrip(SubSeq(s, 1, Len(s) - 1)) ELSE s

\* str.strip()
Strip(s) == RStrip(LStrip(s))

\* str.lower() on the characters the confirmation prompts receive
Lower(s) == [i \in 1..Len(s) |-> IF s[i] = "Y" THEN "y" ELSE IF s[i] = "N" THEN "n" ELSE s[i]]

\* str.isdigit(): non-empty and every character a digit character
IsDigit(s) == s # <<>> /\ \A i \in 1..Len(s) : IsDigitChar(s[i])

AllDecimal(s) == s # <<>> /\ \A i \in 1..Len(s) : IsDecimalChar(s[i])

RECURSIVE DecimalValue(_)
DecimalValue(s) ==
    IF s = <<>> THEN 0 ELSE 10 * DecimalValue(SubSeq(s, 1, Len(s) - 1)) + DigitVal(s[Len(s)])

\* int(s): strips white space, then needs decimal digits (the model's inputs
\* carry no sign where int() is used); anything else raises ValueError
IntOf(s) ==
    LET t == Strip(s)
    IN  IF AllDecimal(t) THEN [ok |-> TRUE, v |-> DecimalValue(t)]
        ELSE [ok |-> FALSE, v |-> 0]

\* str.startswith(prefix)
StartsWith(s, prefix) ==
    Len(prefix) <= Len(s) /\ SubSeq(s, 1, Len(prefix)) = prefix

\* str.split("-")
RECURSIVE SplitDash(_)
SplitDash(s) ==
    IF \A i \in 1..Len(s) : s[i] # "-" THEN <<s>>
    ELSE LET k == CHOOSE i \in 1..Len(s) : s[i] = "-" /\ \A j \in 1..(i - 1) : s[j] # "-"
         IN  <<SubSeq(s, 1, k - 1)>> \o SplitDash(SubSeq(s, k + 1, Len(s)))

(* ------------------------------ floats --------------------------------- *)
Num(n) == [k |-> "num", v |-> n]
NaN == [k |-> "nan", v |-> 0]
PosInf == [k |-> "inf", v |-> 0]
NegInf == [k |-> "ninf", v |-> 0]

\* Python's  x <= 0  on a float: every comparison with NaN is False
FloatLeZero(x) ==
    CASE x.k = "num" -> x.v <= 0
      [] x.k = "ninf" -> TRUE
      [] OTHER -> FALSE

\* Python's  x + y  on floats
FloatAdd(x, y) ==
    CASE x.k = "nan" \/ y.k = "nan" -> NaN
      [] x.k = "inf" /\ y.k = "ninf" -> NaN
      [] x.k = "ninf" /\ y.k = "inf" -> NaN
      [] x.k = "inf" \/ y.k = "inf" -> PosInf
      [] x.k = "ninf" \/ y.k = "ninf" -> NegInf
      [] OTHER -> Num(x.v + y.v)

\* float(s) on a stripped string of the grammar  [+-] digits | [+-] nan | [+-] inf ;
\* every other string of the model's inputs raises ValueError
ParseFloat(s0) ==
    LET s == Strip(s0)
        signed == s # <<>> /\ Head(s) \in {"+", "-"}
        neg == s # <<>> /\ Head(s) = "-"
        body == IF signed THEN Tail(s) ELSE s
    IN  IF AllDecimal(body)
            THEN [ok |-> TRUE, f |-> Num(IF neg THEN 0 - DecimalValue(body) ELSE DecimalValue(body))]
        ELSE IF body = <<"n", "a", "n">> THEN [ok |-> TRUE, f |-> NaN]
        ELSE IF body = <<"i", "n", "f">> THEN [ok |-> TRUE, f |-> IF neg THEN NegInf ELSE PosInf]
        ELSE [ok |-> FALSE, f |-> Num(0)]

(* ------------------------- datetime.strptime --------------------------- *)
\* %Y : exactly four digits
MatchesYear(p) == Len(p) = 4 /\ AllDecimal(p)

\* %m : 1[0-2] | 0[1-9] | [1-9]
MatchesMonth(p) ==
    \/ Len(p) = 2 /\ p[1] = "1" /\ p[2] \in {"0", "1", "2"}
    \/ Len(p) = 2 /\ p[1] = "0" /\ IsDecimalChar(p[2]) /\ p[2] # "0"
    \/ Len(p) = 1 /\ IsDecimalChar(p[1]) /\ p[1] # "0"

\* %d : 3[01] | [12]\d | 0[1-9] | [1-9] | " "[1-9]
MatchesDay(p) ==
    \/ Len(p) = 2 /\ p[1] = "3" /\ p[2] \in {"0", "1"}
    \/ Len(p) = 2 /\ p[1] \in {"1", "2"} /\ IsDecimalChar(p[2])
    \/ Len(p) = 2 /\ p[1] \in {"0", " "} /\ IsDecimalChar(p[2]) /\ p[2] # "0"
    \/ Len(p) = 1 /\ IsDecimalChar(p[1]) /\ p[1] # "0"

IsLeap(y) == (y % 4 = 0 /\ y % 100 # 0) \/ y % 400 = 0

DaysInMonth(y, m) ==
    IF m = 2 THEN (IF IsLeap(y) THEN 29 ELSE 28)
    ELSE IF m \in {4, 6, 9, 11} THEN 30 ELSE 31

\* datetime.strptime(s, "%Y-%m-%d") does not raise ValueError
StrptimeDate(s) ==
    LET parts == SplitDash(s)
    IN  /\ Len(parts) = 3
        /\ MatchesYear(parts[1])
        /\ MatchesMonth(parts[2])
        /\ MatchesDay(parts[3])
        /\ IntOf(parts[1]).v >= 1
        /\ IntOf(parts[3]).v <= DaysInMonth(IntOf(parts[1]).v, IntOf(parts[2]).v)

\* datetime.strptime(s, "%Y-%m") does not raise ValueError
StrptimeMonth(s) ==
    LET parts == SplitDash(s)
    IN  /\ Len(parts) = 2
        /\ MatchesYear(parts[1])
        /\ MatchesMonth(parts[2])
        /\ IntOf(parts[1]).v >= 1

(* ----------------------- records and the snapshot ---------------------- *)
\* the Expense dataclass
Expense(date, description, category, amount) ==
    [date |-> date, description |-> description, category |-> category, amount |-> amount]

\* JSON values held by the snapshot's objects
JStr(s) == [t |-> "str", s |-> s, f |-> Num(0)]
JNum(x) == [t |-> "num", s |-> <<>>, f |-> x]
JNull == [t |-> "null", s |-> <<>>, f |-> Num(0)]

Other == <<"O", "t", "h", "e", "r">>

\* a to_dict that writes the description and the category under each other's key
to_dict_swapped(e) ==
    [key \in {"date", "description", "category", "amount"} |->
        CASE key = "date" -> JStr(e.date)
          [] key = "description" -> JStr(e.category)
          [] key = "category" -> JStr(e.description)
          [] OTHER -> JNum(e.amount)]

\* Expense.to_dict
to_dict(e) ==
    [key \in {"date", "description", "category", "amount"} |->
        CASE key = "date" -> JStr(e.date)
          [] key = "description" -> JStr(e.description)
          [] key = "category" -> JStr(e.category)
          [] OTHER -> JNum(e.amount)]

\* float(d["amount"]) on a JSON value
FloatOfJson(j) ==
    CASE j.t = "num" -> [exc |-> "none", f |-> j.f]
      [] j.t = "str" -> IF ParseFloat(j.s).ok THEN [exc |-> "none", f |-> ParseFloat(j.s).f]
                        ELSE [exc |-> "ValueError", f |-> Num(0)]
      [] OTHER -> [exc |-> "TypeError", f |-> Num(0)]

\* Expense.from_dict: d["date"], d["description"] and d["amount"] raise KeyError
\* when the key is missing, d.get("category", "Other") does not
from_dict(d) ==
    IF "date" \notin DOMAIN d \/ "description" \notin DOMAIN d \/ "amount" \notin DOMAIN d
        THEN [exc |-> "KeyError", rec |-> Expense(<<>>, <<>>, <<>>, Num(0))]
    ELSE LET a == FloatOfJson(d["amount"])
             cat == IF "category" \in DOMAIN d THEN d["category"].s ELSE Other
         IN  [exc |-> a.exc, rec |-> Expense(d["date"].s, d["description"].s, cat, a.f)]

\* the snapshot file: absent, a file open() cannot read, text json.load cannot
\* parse, or a parsed JSON document whose top level is a list of objects, a
\* non-empty object or a number
NoFile == [kind |-> "absent", items |-> <<>>]
Unreadable == [kind |-> "unreadable", items |-> <<>>]
Garbage == [kind |-> "garbage", items |-> <<>>]
JsonList(items) == [kind |-> "list", items |-> items]
JsonDict == [kind |-> "dict", items |-> <<>>]
JsonNumber == [kind |-> "number", items |-> <<>>]

\* the first exception raised by [Expense.from_dict(item) for item in data]
RECURSIVE FirstExc(_)
FirstExc(items) ==
    IF items = <<>> THEN "none"
    ELSE IF from_dict(Head(items)).exc # "none" THEN from_dict(Head(items)).exc
    ELSE FirstExc(Tail(items))

\* load_expenses: only json.JSONDecodeError and IOError are caught
load_expenses(f) ==
    CASE f.kind = "absent" -> [exc |-> "none", caught |-> FALSE, recs |-> <<>>]
      [] f.kind = "unreadable" -> [exc |-> "IOError", caught |-> TRUE, recs |-> <<>>]
      [] f.kind = "garbage" -> [exc |-> "JSONDecodeError", caught |-> TRUE, recs |-> <<>>]
      [] f.kind = "list" ->
            IF FirstExc(f.items) # "none"
                THEN [exc |-> FirstExc(f.items), caught |-> FALSE, recs |-> <<>>]
            ELSE [exc |-> "none", caught |-> FALSE,
                  recs |-> [i \in 1..Len(f.items) |-> from_dict(f.items[i]).rec]]
      [] OTHER -> [exc |-> "TypeError", caught |-> FALSE, recs |-> <<>>]

\* what json.dump writes for the whole list
JsonDump(recs) == JsonList([i \in 1..Len(recs) |-> to_dict(recs[i])])

\* outcomes of save_expenses: the write succeeds, open() raises IOError (the
\* file is left as it was), or the write raises IOError after open() truncated
\* the file (the file holds a partial document)
SaveOutcomes == {"ok", "open_failed", "write_failed"}

\* a save that appends the newest record to the document it finds
save_newest_only(recs, outcome, old) ==
    CASE outcome = "ok" ->
            IF old.kind = "list" /\ recs # <<>>
                THEN JsonList(Append(old.items, to_dict(recs[Len(recs)])))
            ELSE JsonDump(recs)
      [] outcome = "open_failed" -> old
      [] OTHER -> Garbage

save_expenses(recs, outcome, old) ==
    CASE outcome = "ok" -> JsonDump(recs)
      [] outcome = "open_failed" -> old
      [] OTHER -> Garbage

(* ------------------------------ inputs --------------------------------- *)
Empty == <<>>
D_Oct05 == <<"2", "0", "2", "4", "-", "1", "0", "-", "0", "5">>
D_Jan5Short == <<"2", "0", "2", "4", "-", "1", "-", "5">>
D_Feb30 == <<"2", "0", "2", "4", "-", "0", "2", "-", "3", "0">>
D_Slashes == <<"2", "0", "2", "4", "/", "0", "3", "/", "0", "1">>
D_Oct05Padded == <<" ">> \o D_Oct05 \o <<" ">>

\* lines typed at a date prompt
DateInputs == {Empty, D_Oct05, D_Jan5Short, D_Feb30, D_Slashes, D_Oct05Padded}

M_Mar == <<"2", "0", "2", "4", "-", "0", "3">>
M_Oct == <<"2", "0", "2", "4", "-", "1", "0">>
M_One == <<"2", "0", "2", "4", "-", "1">>
M_Thirteen == <<"2", "0", "2", "4", "-", "1", "3">>

\* lines typed at the month prompt
MonthInputs == {M_Mar, M_Oct, M_One, M_Thirteen, Empty}

Tea == <<"t", "e", "a">>
Food == <<"F", "o", "o", "d">>

TeaPadded == <<" ">> \o Tea

\* lines typed at the description prompt of add_expense and of update_expense
DescriptionInputs == {Tea, TeaPadded}
NewDescriptionInputs == {Empty, Tea}

\* lines typed at the category prompts
CategoryInputs == {Empty, Other}

\* lines typed at an amount prompt
AmountInputs ==
    {Empty, <<"1", "0">>, <<"0">>, <<"-", "5">>, <<"n", "a", "n">>, <<"a", "b", "c">>}

\* lines typed at an "ID" prompt
ChoiceInputs == {Empty, <<"0">>, <<"1">>, <<"2">>, <<"3">>, <<"4">>, <<"-", "1">>, <<"x">>, <<"^2">>}

\* lines typed at a y/n prompt
YesNoInputs == {<<"y">>, <<"Y">>, <<"n">>}

\* well-formed records a snapshot may hold when the process starts
R_Tea == Expense(D_Oct05, Tea, Food, Num(10))
R_Plain == Expense(D_Oct05, Tea, Other, Num(10))

\* to_dict(e) without the "category" key
WithoutCategory(e) == [key \in {"date", "description", "amount"} |-> to_dict(e)[key]]

\* to_dict(e) without the "date" key
WithoutDate(e) == [key \in {"description", "category", "amount"} |-> to_dict(e)[key]]

\* to_dict(e) with another value under "amount"
WithAmount(e, j) == [to_dict(e) EXCEPT !["amount"] = j]

\* snapshots found at start-up
InitFiles ==
    { NoFile,
      Unreadable,
      Garbage,
      JsonList(<<>>),
      JsonList(<<to_dict(R_Tea)>>),
      JsonList(<<to_dict(R_Tea), WithoutCategory(R_Plain)>>),
      JsonList(<<WithAmount(R_Tea, JStr(<<"1", "0">>))>>),
      JsonList(<<WithoutDate(R_Tea)>>),
      JsonList(<<WithAmount(R_Tea, JStr(<<"a", "b", "c">>))>>),
      JsonList(<<WithAmount(R_Tea, JNull)>>),
      JsonDict,
      JsonNumber }

(* ------------------------------- state --------------------------------- *)
NoLocals ==
    [date |-> Empty, description |-> Empty, category |-> Empty, idx |-> 0, supplied |-> FALSE]

\* what the last step reported: its message, the idx it computed from the typed
\* ID (-1 when it computed none), whether any field was supplied to
\* update_expense, and the monthly summary's results
Msg(m) == [msg |-> m, idx |-> -1, supplied |-> FALSE, key |-> Empty, total |-> Num(0),
           by_category |-> <<>>, daily_totals |-> <<>>]

\* how the latest call of save_expenses ended
Logged(outcome) == IF outcome = "ok" THEN "ok" ELSE "failed"

Failures(outcome) == IF outcome = "ok" THEN 0 ELSE 1

\* the outcomes a snapshot write may have in this run
Allowed(outcome) == outcome \in SaveOutcomes /\ ioFailures + Failures(outcome) <= MaxIOFailures

\* a call of save_expenses() on the list as the handler leaves it
Save(outcome) ==
    /\ Allowed(outcome)
    /\ file' = save_expenses(expenses', outcome, file)
    /\ opSaves' = opSaves + 1
    /\ lastSave' = Logged(outcome)
    /\ ioFailures' = ioFailures + Failures(outcome)

Init ==
    /\ expenses = <<>>
    /\ file \in InitFiles
    /\ pc = "start"
    /\ locals = NoLocals
    /\ out = Msg("none")
    /\ opSaves = 0
    /\ lastSave = "none"
    /\ ioFailures = 0

\* expenses = load_expenses() at module level; an uncaught exception ends the process
Load ==
    /\ pc = "start"
    /\ LET r == load_expenses(file)
       IN  IF r.exc # "none" /\ ~r.caught
               THEN /\ pc' = "crashed"
                    /\ out' = Msg(r.exc)
                    /\ expenses' = expenses
           ELSE /\ pc' = "menu"
                /\ out' = Msg(IF r.caught THEN "Error loading expenses" ELSE "loaded")
                /\ expenses' = r.recs
    /\ UNCHANGED <<file, locals, opSaves, lastSave, ioFailures>>

(* ------------------------------ add_expense ---------------------------- *)
\* expenses.insert(0, expense)
ListPrepend(recs, e) == <<e>> \o recs

\* expenses.append(expense)
ListAppend(recs, e) == Append(recs, e)

\* main(): choice "1"
ChooseAdd ==
    /\ pc = "menu"
    /\ Len(expenses) < MaxExpenses
    /\ pc' = "add_date"
    /\ opSaves' = 0
    /\ locals' = NoLocals
    /\ out' = Msg("Add Expense")
    /\ UNCHANGED <<expenses, file, lastSave, ioFailures>>

\* one pass of the date loop; an accepted date is followed by the description
\* and category prompts
AddDate(line) ==
    /\ pc = "add_date"
    /\ LET date == Strip(line)
       IN  IF StrptimeDate(date)
               THEN /\ \E descLine \in DescriptionInputs, catLine \in CategoryInputs :
                           LET category == Strip(catLine)
                           IN  locals' = [locals EXCEPT
                                   !.date = date,
                                   !.description = Strip(descLine),
                                   !.category = IF category = Empty THEN Other ELSE category]
                    /\ pc' = "add_amount"
                    /\ out' = Msg("date accepted")
           ELSE /\ out' = Msg("Invalid input! Enter in YYYY-MM-DD format.")
                /\ UNCHANGED <<pc, locals>>
    /\ UNCHANGED <<expenses, file, opSaves, lastSave, ioFailures>>

\* one pass of the amount loop; an accepted amount appends the record and saves
AddAmount(line) ==
    /\ pc = "add_amount"
    /\ LET p == ParseFloat(Strip(line))
       IN  IF ~p.ok
               THEN /\ out' = Msg("Invalid amount, please enter a number.")
                    /\ UNCHANGED <<expenses, file, pc, locals, opSaves, lastSave, ioFailures>>
           ELSE IF FloatLeZero(p.f)
               THEN /\ out' = Msg("Amount must be greater than 0.")
                    /\ UNCHANGED <<expenses, file, pc, locals, opSaves, lastSave, ioFailures>>
           ELSE /\ expenses' = ListAppend(expenses,
                                          Expense(locals.date, locals.description, locals.category, p.f))
                /\ \E outcome \in SaveOutcomes : Save(outcome)
                /\ pc' = "menu"
                /\ locals' = NoLocals
                /\ out' = Msg("Expense added successfully!")

(* ----------------------------- delete_expense -------------------------- *)
\* the message printed for an ID that is no position of the list
OutOfRange == "Please enter a number between 1 and N."

\* the range check with its lower end at 0
InRangeFromZero(idx, recs) == 0 <= idx /\ idx <= Len(recs)

\* 1 <= idx <= len(expenses)
InRange(idx, recs) == 1 <= idx /\ idx <= Len(recs)

\* expenses.pop(idx), which takes the 1-based idx for a 0-based one
PopNext(recs, idx) == SubSeq(recs, 1, idx) \o SubSeq(recs, idx + 2, Len(recs))

\* expenses.pop(idx - 1) for the 1-based idx
Pop(recs, idx) == SubSeq(recs, 1, idx - 1) \o SubSeq(recs, idx + 1, Len(recs))

\* main(): choice "5"; the handler returns at once on an empty list
ChooseDelete ==
    /\ pc = "menu"
    /\ opSaves' = 0
    /\ locals' = NoLocals
    /\ IF expenses = <<>>
           THEN /\ out' = Msg("No expenses recorded yet.")
                /\ pc' = pc
       ELSE /\ out' = Msg("Delete Expense")
            /\ pc' = "delete_loop"
    /\ UNCHANGED <<expenses, file, lastSave, ioFailures>>

\* one pass of the while loop of delete_expense
DeleteStep(line) ==
    /\ pc = "delete_loop"
    /\ LET choice == Strip(line)
           idx == IntOf(choice)
       IN  IF choice = Empty
               THEN /\ out' = Msg("Delete cancelled.")
                    /\ pc' = "menu"
                    /\ UNCHANGED <<expenses, file, locals, opSaves, lastSave, ioFailures>>
           ELSE IF ~IsDigit(choice)
               THEN /\ out' = Msg("Please enter a valid number.")
                    /\ UNCHANGED <<expenses, file, pc, locals, opSaves, lastSave, ioFailures>>
           ELSE IF ~idx.ok
               THEN /\ out' = Msg("ValueError")
                    /\ pc' = "crashed"
                    /\ UNCHANGED <<expenses, file, locals, opSaves, lastSave, ioFailures>>
           ELSE IF InRange(idx.v, expenses)
               THEN /\ \E confirmLine \in YesNoInputs :
                           IF Lower(Strip(confirmLine)) # <<"y">>
                               THEN /\ out' = [Msg("Delete skipped.") EXCEPT !.idx = idx.v]
                                    /\ UNCHANGED <<expenses, file, opSaves, lastSave, ioFailures>>
                           ELSE /\ expenses' = Pop(expenses, idx.v)
                                /\ \E outcome \in SaveOutcomes : Save(outcome)
                                /\ out' = [Msg("Deleted") EXCEPT !.idx = idx.v]
                    /\ \E againLine \in YesNoInputs :
                           pc' = IF expenses' = <<>> \/ Lower(Strip(againLine)) # <<"y">>
                                 THEN "menu" ELSE pc
                    /\ locals' = locals
           ELSE /\ out' = [Msg(OutOfRange) EXCEPT !.idx = idx.v]
                /\ UNCHANGED <<expenses, file, pc, locals, opSaves, lastSave, ioFailures>>

(* ----------------------------- update_expense -------------------------- *)
\* exp.field = new, whatever was typed
AlwaysAssign(new, current) == new

\* if new != "": exp.field = new
KeepCurrent(new, current) == IF new = Empty THEN current ELSE new

\* main(): choice "6"; the handler returns at once on an empty list
ChooseUpdate ==
    /\ pc = "menu"
    /\ opSaves' = 0
    /\ locals' = NoLocals
    /\ IF expenses = <<>>
           THEN /\ out' = Msg("No expenses recorded yet.")
                /\ pc' = pc
       ELSE /\ out' = Msg("Update Expense")
            /\ pc' = "update_choice"
    /\ UNCHANGED <<expenses, file, lastSave, ioFailures>>

\* one pass of the loop that asks for the ID
UpdateChoice(line) ==
    /\ pc = "update_choice"
    /\ LET choice == Strip(line)
           idx == IntOf(choice)
       IN  IF choice = Empty
               THEN /\ out' = Msg("Update cancelled.")
                    /\ pc' = "menu"
                    /\ locals' = locals
           ELSE IF ~IsDigit(choice)
               THEN /\ out' = Msg("Please enter a valid number.")
                    /\ UNCHANGED <<pc, locals>>
           ELSE IF ~idx.ok
               THEN /\ out' = Msg("ValueError")
                    /\ pc' = "crashed"
                    /\ locals' = locals
           ELSE IF InRange(idx.v, expenses)
               THEN /\ out' = [Msg("Leave input empty and press Enter to keep the current value.")
                               EXCEPT !.idx = idx.v]
                    /\ pc' = "update_date"
                    /\ locals' = [locals EXCEPT !.idx = idx.v]
           ELSE /\ out' = [Msg(OutOfRange) EXCEPT !.idx = idx.v]
                /\ UNCHANGED <<pc, locals>>
    /\ UNCHANGED <<expenses, file, opSaves, lastSave, ioFailures>>

\* one pass of the date loop; when it ends (empty line or accepted date) the
\* description and category prompts follow. exp is the list's own element, so
\* every assignment changes the list at once.
UpdateDate(line) ==
    /\ pc = "update_date"
    /\ LET new_date == Strip(line)
           exp == expenses[locals.idx]
           dated == [exp EXCEPT !.date = KeepCurrent(new_date, @)]
       IN  IF new_date = Empty \/ StrptimeDate(new_date)
               THEN /\ \E descLine \in NewDescriptionInputs, catLine \in CategoryInputs :
                           LET new_desc == Strip(descLine)
                               new_cat == Strip(catLine)
                               described == [dated EXCEPT !.description = KeepCurrent(new_desc, @)]
                               categorised == [described EXCEPT !.category = KeepCurrent(new_cat, @)]
                           IN  /\ expenses' = [expenses EXCEPT ![locals.idx] = categorised]
                               /\ locals' = [locals EXCEPT !.supplied =
                                      new_date # Empty \/ new_desc # Empty \/ new_cat # Empty \/ @]
                    /\ pc' = "update_amount"
                    /\ out' = Msg("date done")
           ELSE /\ out' = Msg("Invalid date format! Please enter as YYYY-MM-DD.")
                /\ locals' = [locals EXCEPT !.supplied = TRUE]
                /\ UNCHANGED <<expenses, pc>>
    /\ UNCHANGED <<file, opSaves, lastSave, ioFailures>>

\* one pass of the amount loop; when it ends the list is saved
UpdateAmount(line) ==
    /\ pc = "update_amount"
    /\ LET new_amount_str == Strip(line)
           p == ParseFloat(new_amount_str)
       IN  IF new_amount_str # Empty /\ ~p.ok
               THEN /\ out' = Msg("Invalid amount, please enter a number.")
                    /\ locals' = [locals EXCEPT !.supplied = TRUE]
                    /\ UNCHANGED <<expenses, file, pc, opSaves, lastSave, ioFailures>>
           ELSE IF new_amount_str # Empty /\ FloatLeZero(p.f)
               THEN /\ out' = Msg("Amount must be greater than 0.")
                    /\ locals' = [locals EXCEPT !.supplied = TRUE]
                    /\ UNCHANGED <<expenses, file, pc, opSaves, lastSave, ioFailures>>
           ELSE /\ expenses' = IF new_amount_str = Empty THEN expenses
                               ELSE [expenses EXCEPT ![locals.idx].amount = p.f]
                /\ \E outcome \in SaveOutcomes : Save(outcome)
                /\ pc' = "menu"
                /\ out' = [Msg("Expense updated successfully!") EXCEPT
                               !.supplied = locals.supplied \/ new_amount_str # Empty]
                /\ locals' = NoLocals

(* -------------------------- view_monthly_summary ----------------------- *)
\* a dict in insertion order: a sequence of <<key, value>> pairs
HasKey(dict, key) == \E i \in 1..Len(dict) : dict[i][1] = key

\* dict[key] = dict.get(key, 0) + amount
Accumulate(dict, key, amount) ==
    IF HasKey(dict, key)
        THEN [i \in 1..Len(dict) |->
                 IF dict[i][1] = key THEN <<key, FloatAdd(dict[i][2], amount)>> ELSE dict[i]]
    ELSE Append(dict, <<key, FloatAdd(Num(0), amount)>>)

\* total after the first loop over expenses[1..n]
RECURSIVE MonthTotal(_, _, _)
MonthTotal(recs, month, n) ==
    IF n = 0 THEN Num(0)
    ELSE IF StartsWith(recs[n].date, month)
        THEN FloatAdd(MonthTotal(recs, month, n - 1), recs[n].amount)
    ELSE MonthTotal(recs, month, n - 1)

\* by_category after the first loop over expenses[1..n]
RECURSIVE MonthByCategory(_, _, _)
MonthByCategory(recs, month, n) ==
    IF n = 0 THEN <<>>
    ELSE IF StartsWith(recs[n].date, month)
        THEN Accumulate(MonthByCategory(recs, month, n - 1), recs[n].category, recs[n].amount)
    ELSE MonthByCategory(recs, month, n - 1)

\* int(exp.date.split("-")[2])
DayOf(date) == IntOf(SplitDash(date)[3]).v

\* daily_totals after the second loop over expenses[1..n]
RECURSIVE MonthDailyTotals(_, _, _)
MonthDailyTotals(recs, month, n) ==
    IF n = 0 THEN <<>>
    ELSE IF StartsWith(recs[n].date, month)
        THEN Accumulate(MonthDailyTotals(recs, month, n - 1), DayOf(recs[n].date), recs[n].amount)
    ELSE MonthDailyTotals(recs, month, n - 1)

\* main(): choice "3"
ChooseMonthly ==
    /\ pc = "menu"
    /\ pc' = "month_prompt"
    /\ opSaves' = 0
    /\ locals' = NoLocals
    /\ out' = Msg("Monthly Summary")
    /\ UNCHANGED <<expenses, file, lastSave, ioFailures>>

\* one pass of the month loop; an accepted key is followed by the summary
MonthlySummary(line) ==
    /\ pc = "month_prompt"
    /\ LET month == Strip(line)
           n == Len(expenses)
           found == \E i \in 1..n : StartsWith(expenses[i].date, month)
       IN  IF ~StrptimeMonth(month)
               THEN /\ out' = Msg("Invalid input! Enter in YYYY-MM format.")
                    /\ pc' = pc
           ELSE IF ~found
               THEN /\ out' = Msg("No expenses found for this month.")
                    /\ pc' = "menu"
           ELSE /\ out' = [Msg("Total spending") EXCEPT
                               !.key = month,
                               !.total = MonthTotal(expenses, month, n),
                               !.by_category = MonthByCategory(expenses, month, n),
                               !.daily_totals = MonthDailyTotals(expenses, month, n)]
                /\ pc' = "menu"
    /\ UNCHANGED <<expenses, file, locals, opSaves, lastSave, ioFailures>>

\* main(): choice "8"
Exit ==
    /\ pc = "menu"
    /\ pc' = "exited"
    /\ out' = Msg("Thank you for using Personal Expense Tracker!")
    /\ UNCHANGED <<expenses, file, locals, opSaves, lastSave, ioFailures>>

Next ==
    \/ Load
    \/ ChooseAdd
    \/ \E line \in DateInputs : AddDate(line)
    \/ \E line \in AmountInputs : AddAmount(line)
    \/ ChooseDelete
    \/ \E line \in ChoiceInputs : DeleteStep(line)
    \/ ChooseUpdate
    \/ \E line \in ChoiceInputs : UpdateChoice(line)
    \/ \E line \in DateInputs : UpdateDate(line)
    \/ \E line \in AmountInputs : UpdateAmount(line)
    \/ ChooseMonthly
    \/ \E line \in MonthInputs : MonthlySummary(line)
    \/ Exit

Spec == Init /\ [][Next]_vars

(* ------------------------------- claims -------------------------------- *)
\* a handler is between two saves only while update_expense asks for the amount
NoUnsavedEdit == pc # "update_amount"

\* C1: whenever the latest snapshot write succeeded, also after earlier writes
\* failed, the snapshot holds the whole current in-memory list: every change
\* made since a failed write is in it.
C1_SuccessfulSaveHoldsWholeList ==
    (lastSave = "ok" /\ NoUnsavedEdit) => file = JsonDump(expenses)

C1_Witness ==
    /\ pc = "menu"
    /\ lastSave = "ok"
    /\ ioFailures >= 1
    /\ Len(expenses) = 2
    /\ file = JsonDump(expenses)

\* C2: a completed add leaves the previous list with exactly one record, the one
\* built from the prompts, appended at the end, and has called save once; an
\* add that has not completed has changed nothing and saved nothing.
C2_AddAppendsOneRecordAndSavesOnce ==
    [][ /\ (pc = "add_amount" /\ pc' = "menu") =>
              /\ Len(expenses') = Len(expenses) + 1
              /\ SubSeq(expenses', 1, Len(expenses)) = expenses
              /\ expenses'[Len(expenses')].date = locals.date
              /\ expenses'[Len(expenses')].description = locals.description
              /\ expenses'[Len(expenses')].category = locals.category
              /\ opSaves' = 1
        /\ (pc \in {"add_date", "add_amount"} /\ pc' # "menu") =>
              (expenses' = expenses /\ file' = file /\ opSaves' = 0)
      ]_vars

C2_Witness ==
    /\ pc = "menu"
    /\ out.msg = "Expense added successfully!"
    /\ opSaves = 1
    /\ Len(expenses) = 2
    /\ expenses[1] # expenses[2]

\* C3: a confirmed delete of position p, 1 <= p <= length, removes the record at
\* p, keeps the records before p, moves every later record down by one position
\* and shortens the list by exactly one.
C3_DeleteRemovesPositionAndShifts ==
    [][ (pc = "delete_loop" /\ out'.msg = "Deleted") =>
            LET p == out'.idx
            IN  /\ p \in 1..Len(expenses)
                /\ Len(expenses') = Len(expenses) - 1
                /\ \A i \in 1..(p - 1) : expenses'[i] = expenses[i]
                /\ \A i \in p..Len(expenses') : expenses'[i] = expenses[i + 1]
      ]_vars

C3_Witness ==
    /\ out.msg = "Deleted"
    /\ out.idx = 1
    /\ Len(expenses) >= 1

\* C4: an ID that delete or update reads as a number outside 1..length (0 and
\* length+1 included) is answered with the out-of-range message and changes
\* neither the list nor the snapshot nor the handler's position; an ID that is
\* not a number changes nothing either.
C4_OutOfRangeChangesNothing ==
    [][ (pc \in {"delete_loop", "update_choice"}) =>
            /\ (out'.idx # -1 /\ out'.idx \notin 1..Len(expenses)) =>
                  /\ out'.msg = OutOfRange
                  /\ expenses' = expenses
                  /\ file' = file
                  /\ opSaves' = opSaves
                  /\ locals' = locals
                  /\ pc' = pc
            /\ (out'.idx = -1) => (expenses' = expenses /\ file' = file /\ opSaves' = opSaves)
      ]_vars

C4_Witness ==
    /\ pc = "update_choice"
    /\ out.msg = OutOfRange
    /\ out.idx = Len(expenses) + 1
    /\ Len(expenses) >= 1

\* a JSON value float() turns into a number
NumericJson(j) == j.t = "num" \/ (j.t = "str" /\ ParseFloat(j.s).ok)

\* the snapshot exists and is not a list of objects with date, description and
\* a numeric amount
MalformedSnapshot(f) ==
    \/ f.kind \in {"garbage", "dict", "number"}
    \/ /\ f.kind = "list"
       /\ \E i \in 1..Len(f.items) :
              \/ {"date", "description", "amount"} \ DOMAIN f.items[i] # {}
              \/ ~NumericJson(f.items[i]["amount"])

\* C5: loading a malformed snapshot never ends the process: it yields the empty
\* list and the loading error is reported.
C5_MalformedSnapshotYieldsEmptyList ==
    [][ (pc = "start" /\ MalformedSnapshot(file)) =>
            (pc' = "menu" /\ expenses' = <<>> /\ out'.msg = "Error loading expenses")
      ]_vars

\* Python's  x > 0  on a float
FloatGtZero(x) ==
    CASE x.k = "num" -> x.v > 0
      [] x.k = "inf" -> TRUE
      [] OTHER -> FALSE

\* the date parses as a calendar date and the amount is greater than 0
ValidRecord(e) == StrptimeDate(e.date) /\ FloatGtZero(e.amount)

\* Python's == on floats
FloatEq(x, y) == x.k # "nan" /\ y.k # "nan" /\ x = y

\* C6: for a list of valid records, loading what a successful save writes gives
\* back the same records in the same order, each with the same date,
\* description, category and amount.
C6_SaveThenLoadRoundTrip ==
    (\A i \in 1..Len(expenses) : ValidRecord(expenses[i])) =>
        LET r == load_expenses(save_expenses(expenses, "ok", file))
        IN  /\ r.exc = "none"
            /\ Len(r.recs) = Len(expenses)
            /\ \A i \in 1..Len(expenses) :
                  /\ r.recs[i].date = expenses[i].date
                  /\ r.recs[i].description = expenses[i].description
                  /\ r.recs[i].category = expenses[i].category
                  /\ FloatEq(r.recs[i].amount, expenses[i].amount)

C6_Witness ==
    /\ Len(expenses) = 2
    /\ \A i \in 1..2 : ValidRecord(expenses[i])
    /\ expenses[1].category # expenses[2].category
    /\ expenses[1].date # expenses[2].date
    /\ load_expenses(save_expenses(expenses, "ok", file)).recs = expenses

\* C7: starting from a snapshot of positive amounts, every record of the list
\* has an amount greater than 0 after any sequence of operations.
C7_AmountsStayPositive ==
    \A i \in 1..Len(expenses) : FloatGtZero(expenses[i].amount)

\* YYYY-MM-DD: four digits, two digits, two digits, naming a calendar date
IsoDate(s) ==
    /\ Len(s) = 10
    /\ s[5] = "-" /\ s[8] = "-"
    /\ \A i \in {1, 2, 3, 4, 6, 7, 9, 10} : IsDecimalChar(s[i])
    /\ LET y == DecimalValue(SubSeq(s, 1, 4))
           m == DecimalValue(SubSeq(s, 6, 7))
           d == DecimalValue(SubSeq(s, 9, 10))
       IN  y >= 1 /\ m \in 1..12 /\ d \in 1..DaysInMonth(y, m)

\* C8: starting from a snapshot of ISO dates, every date the list holds, after
\* any add and any update, has the ISO form YYYY-MM-DD and is a calendar date.
C8_StoredDatesAreIso ==
    \A i \in 1..Len(expenses) : IsoDate(expenses[i].date)

\* C9: an update in which every prompt is left empty changes no record and
\* calls save exactly once.
C9_EmptyUpdateKeepsRecordAndSaves ==
    [][ /\ (pc = "update_date" /\ pc' = "update_amount" /\ ~locals'.supplied) =>
              expenses' = expenses
        /\ (pc = "update_amount" /\ pc' = "menu" /\ ~out'.supplied) =>
              (expenses' = expenses /\ opSaves' = 1)
      ]_vars

C9_Witness ==
    /\ pc = "menu"
    /\ out.msg = "Expense updated successfully!"
    /\ ~out.supplied
    /\ opSaves = 1
    /\ lastSave = "ok"
    /\ file = JsonDump(expenses)

\* the year and the month a date or a month key names
MonthOf(s) == <<IntOf(SplitDash(s)[1]).v, IntOf(SplitDash(s)[2]).v>>

\* the sum of the amounts of the records whose positions are in idxs
RECURSIVE SumAmounts(_, _, _)
SumAmounts(recs, idxs, n) ==
    IF n = 0 THEN Num(0)
    ELSE IF n \in idxs THEN FloatAdd(SumAmounts(recs, idxs, n - 1), recs[n].amount)
    ELSE SumAmounts(recs, idxs, n - 1)

\* the sum of a dict's values
RECURSIVE DictSum(_)
DictSum(dict) ==
    IF dict = <<>> THEN Num(0) ELSE FloatAdd(dict[1][2], DictSum(Tail(dict)))

\* C10: the monthly summary counts exactly the records whose date has the key
\* as a prefix, none of them a record of another month; its total is the sum of
\* their amounts, and the per-category and per-day totals each sum to it.
C10_MonthlySummaryCountsTheMonth ==
    out.msg = "Total spending" =>
        LET counted == {i \in 1..Len(expenses) : StartsWith(expenses[i].date, out.key)}
        IN  /\ \A i \in counted : MonthOf(expenses[i].date) = MonthOf(out.key)
            /\ out.total = SumAmounts(expenses, counted, Len(expenses))
            /\ DictSum(out.by_category) = out.total
            /\ DictSum(out.daily_totals) = out.total

====
